---- MODULE Spec2Model ----
(***************************************************************************)
(* Search strategies on the point-collecting maze game.                    *)
(*                                                                         *)
(*   prog = "play"   : search_algorithm/src/main.rs, play_game with        *)
(*                     beam_search_action (line 177)                       *)
(*   prog = "greedy" : search_algorithm/src/main.rs, play_game with        *)
(*                     greedy_action (the alternative call of line 178)    *)
(*   prog = "random" : search_algorithm/src/bin/random.rs, play_game       *)
(*   prog = "hill"   : src/bin/hillclimb.rs, play_game with hill_climb     *)
(*                                                                         *)
(* The board sizes, the cell values and the horizon are scaled down; the   *)
(* board size is a variable so that the degenerate boards (1x1, 1x2) are   *)
(* covered next to the boards on which a cell has two or three neighbours. *)
(***************************************************************************)
EXTENDS Integers, Sequences, FiniteSets, Bags, TLC

\* ------------------------------------------------------------------ bounds
\* horizon of an episode (main.rs:6 has 100)
END_TURN == 2
\* greatest value of a cell (main.rs:47 draws 0..10, so 9)
MaxPoint == 1
\* the iteration budgets given to hill_climb are 0 and MaxNumber
\* (hillclimb.rs:214 has 100000)
MaxNumber == 2

\* ------------------------------------------------------- program constants
CHARACTER_N == 3
DX == <<1, -1, 0, 0>>
DY == <<0, 0, 1, -1>>

\* <<H, W>> of the boards explored
BoardSizes == {<<1, 1>>, <<1, 2>>, <<2, 2>>, <<2, 3>>}
\* <<beam_width, beam_depth>> of the calls explored; <<5, 2>> is play_game's
BeamParams == {<<5, 2>>, <<1, 1>>, <<1, 2>>, <<0, 1>>, <<5, 0>>}

\* usize is 64 bits wide in the source; the width is scaled to 16 bits, which
\* keeps what matters: a negative isize cast to usize is far outside 0..3
UsizeModulus == 2 ^ 16
AsUsize(i) == IF i < 0 THEN UsizeModulus + i ELSE i

VARIABLES
    prog,         \* which binary runs
    pc,           \* position in the running binary
    panic,        \* "" or the reason of the panic that ended the run
    H, W,         \* the board size (const H, W)
    state,        \* play_game: the live state
    beam_width,   \* beam_search_action: its arguments
    beam_depth,
    now_beam,     \* beam_search_action: locals (the heaps are bags)
    next_beam,
    best_state,
    t,
    k,            \* index of the inner loop "for _ in 0..beam_width"
    popped,       \* <<the state popped>> by the last pass of the inner loop, or <<>>
    result,       \* the action the engine returned
    runs,         \* how many times the engine is run on each live state
    run_no,
    first_result, \* the action the first of two runs returned
    now_state,    \* hill_climb: locals
    best_score,
    next_score,   \* the score of the last candidate of the loop
    number,       \* hill_climb: its iteration budget
    iter,         \* index of the loop "for _ in 0..number"
    tmp_state     \* get_score(true) of play_game: its local

mazeVars == <<prog, panic, H, W, state>>
beamVars == <<beam_width, beam_depth, now_beam, next_beam, best_state, t, k, popped>>
runVars  == <<runs, run_no, first_result>>
hillVars == <<now_state, best_score, next_score, number, iter, tmp_state>>
vars == <<pc, mazeVars, beamVars, result, runVars, hillVars>>

\* ------------------------------------------------------------- MazeState
Cells == (0 .. H - 1) \X (0 .. W - 1)

\* the cells in the order of the nested arrays: row by row
CellSeq == [i \in 1 .. H * W |-> <<(i - 1) \div W, (i - 1) % W>>]

RECURSIVE SumUpTo(_, _)
SumUpTo(points, n) ==
    IF n = 0 THEN 0 ELSE points[CellSeq[n]] + SumUpTo(points, n - 1)

SumPoints(points) == SumUpTo(points, H * W)

\* MazeState::new: the agent on any cell, nothing under it, any value elsewhere
NewStates ==
    UNION { { [points |-> p, turn |-> 0, character |-> [y |-> c[1], x |-> c[2]],
               game_score |-> 0, evaluated_score |-> 0, first_action |-> -1]
              : p \in {q \in [Cells -> 0 .. MaxPoint] : q[c] = 0} }
            : c \in Cells }

is_done_one_turn_late(s) == s.turn = END_TURN + 1

is_done(s) == s.turn = END_TURN

Target(s, action) ==
    [y |-> s.character.y + DY[action + 1], x |-> s.character.x + DX[action + 1]]

InBoard(c) == c.y >= 0 /\ c.y < H /\ c.x >= 0 /\ c.x < W

\* advance indexes DX, DY and points without a check of its own
AdvanceOk(s, action) == action \in 0 .. 3 /\ InBoard(Target(s, action))

advance_keeps_point(s, action) ==
    LET c == Target(s, action)
        point == s.points[<<c.y, c.x>>]
    IN  [s EXCEPT !.character = c,
                  !.game_score = IF point > 0 THEN @ + point ELSE @,
                  !.turn = @ + 1]

advance(s, action) ==
    LET c == Target(s, action)
        point == s.points[<<c.y, c.x>>]
    IN  [s EXCEPT !.character = c,
                  !.game_score = IF point > 0 THEN @ + point ELSE @,
                  !.points = IF point > 0 THEN [@ EXCEPT ![<<c.y, c.x>>] = 0] ELSE @,
                  !.turn = @ + 1]

legal_actions_no_upper_check(s) ==
    SelectSeq(<<0, 1, 2, 3>>,
              LAMBDA action : Target(s, action).y >= 0 /\ Target(s, action).x >= 0)

legal_actions(s) ==
    SelectSeq(<<0, 1, 2, 3>>, LAMBDA action : InBoard(Target(s, action)))

evaluate_score(s) == [s EXCEPT !.evaluated_score = s.game_score]

Range(seq) == {seq[i] : i \in 1 .. Len(seq)}

AllAdvanceOk(s) == \A action \in Range(legal_actions(s)) : AdvanceOk(s, action)

\* ------------------------------------------- #[derive(Ord)] for MazeState
\* the derived order compares the fields in the order of their declaration:
\* points, turn, character (y, x), game_score, evaluated_score, first_action
KeyByScore(s) == <<s.evaluated_score>>

Key(s) ==
    [i \in 1 .. H * W |-> s.points[CellSeq[i]]]
    \o <<s.turn, s.character.y, s.character.x, s.game_score,
         s.evaluated_score, s.first_action>>

LexLess(p, q) ==
    \E i \in 1 .. Len(p) : p[i] < q[i] /\ \A j \in 1 .. i - 1 : p[j] = q[j]

Less(a, b) == LexLess(Key(a), Key(b))

\* BinaryHeap::pop returns a greatest item of the heap
Greatest(heap) == {s \in BagToSet(heap) : \A o \in BagToSet(heap) : ~Less(s, o)}

Push(heap, s) == heap (+) SetToBag({s})
Remove(heap, s) == heap (-) SetToBag({s})

\* ---------------------------------------------------------- greedy_action
GreedyBetterOrEqual(score, best) == score >= best

GreedyBetter(score, best) == score > best

RECURSIVE greedy_loop(_, _, _, _, _)
greedy_loop(s, actions, i, best, best_action) ==
    IF i > Len(actions) THEN best_action
    ELSE LET advanced == evaluate_score(advance(s, actions[i]))
         IN  IF GreedyBetter(advanced.evaluated_score, best)
             THEN greedy_loop(s, actions, i + 1, advanced.evaluated_score, actions[i])
             ELSE greedy_loop(s, actions, i + 1, best, best_action)

greedy_action(s) == AsUsize(greedy_loop(s, legal_actions(s), 1, -1, -1))

\* ----------------------------------------- AutoMoveMazeState (hillclimb.rs)
\* the boards of the hill climbing: every cell has a neighbour to move to
HillSizes == {<<1, 2>>, <<2, 2>>}

\* AutoMoveMazeState::new: one cell holds nothing, every agent is on (0, 0)
AutoNewStates ==
    UNION { { [points |-> p, turn |-> 0,
               characters |-> [id \in 1 .. CHARACTER_N |-> [y |-> 0, x |-> 0]],
               game_score |-> 0, evaluated_score |-> 0]
              : p \in {q \in [Cells -> 0 .. MaxPoint] : q[c] = 0} }
            : c \in Cells }

Coords == {[y |-> c[1], x |-> c[2]] : c \in Cells}

RECURSIVE best_action_loop(_, _, _, _, _)
best_action_loop(s, character, action, best_point, best_action_index) ==
    IF action > 3 THEN best_action_index
    ELSE LET ty == character.y + DY[action + 1]
             tx == character.x + DX[action + 1]
         IN  IF InBoard([y |-> ty, x |-> tx]) /\ s.points[<<ty, tx>>] > best_point
             THEN best_action_loop(s, character, action + 1, s.points[<<ty, tx>>], action)
             ELSE best_action_loop(s, character, action + 1, best_point, best_action_index)

move_player(s, character_id) ==
    LET character == s.characters[character_id]
        best_action_index == best_action_loop(s, character, 0, -100000000, 0)
    IN  [s EXCEPT !.characters[character_id] =
                      [y |-> character.y + DY[best_action_index + 1],
                       x |-> character.x + DX[best_action_index + 1]]]

RECURSIVE move_all(_, _)
move_all(s, character_id) ==
    IF character_id > CHARACTER_N THEN s
    ELSE move_all(move_player(s, character_id), character_id + 1)

RECURSIVE collect_all(_, _)
collect_all(s, character_id) ==
    IF character_id > CHARACTER_N THEN s
    ELSE LET c == s.characters[character_id]
             point == s.points[<<c.y, c.x>>]
         IN  collect_all([s EXCEPT !.game_score = @ + point,
                                   !.points = [@ EXCEPT ![<<c.y, c.x>>] = 0]],
                         character_id + 1)

\* AutoMoveMazeState::advance
auto_advance(s) == [collect_all(move_all(s, 1), 1) EXCEPT !.turn = @ + 1]

\* get_score, lines 119-123: the cells under the agents are emptied, not scored
clear_under(s) ==
    [s EXCEPT !.points = [c \in Cells |->
        IF \E id \in 1 .. CHARACTER_N : s.characters[id] = [y |-> c[1], x |-> c[2]]
        THEN 0 ELSE s.points[c]]]

RECURSIVE playout(_)
playout(tmp) == IF is_done(tmp) THEN tmp.game_score ELSE playout(auto_advance(tmp))

get_score(s) == playout(clear_under(s))

AcceptsEqual(next, best) == next >= best

Accepts(next, best) == next > best

\* ------------------------------------------------------------------- Init
InitMaze ==
    /\ prog \in {"play", "greedy", "random"}
    /\ pc = "loop"
    /\ panic = ""
    /\ \E size \in BoardSizes : H = size[1] /\ W = size[2]
    /\ state \in NewStates
    /\ \E p \in (IF prog = "play" THEN BeamParams ELSE {<<0, 0>>}) :
          beam_width = p[1] /\ beam_depth = p[2]
    /\ now_beam = EmptyBag
    /\ next_beam = EmptyBag
    /\ best_state = state
    /\ t = 0
    /\ k = 0
    /\ popped = <<>>
    /\ result = 0
    /\ run_no = 1
    /\ first_result = 0
    /\ now_state = 0
    /\ best_score = 0
    /\ next_score = 0
    /\ number = 0
    /\ iter = 0
    /\ tmp_state = 0

\* play_game of hillclimb.rs, line 204
InitHill ==
    /\ prog = "hill"
    /\ pc = "hill_start"
    /\ panic = ""
    /\ \E size \in HillSizes : H = size[1] /\ W = size[2]
    /\ state \in AutoNewStates
    /\ beam_width = 0
    /\ beam_depth = 0
    /\ now_beam = EmptyBag
    /\ next_beam = EmptyBag
    /\ best_state = state
    /\ t = 0
    /\ k = 0
    /\ popped = <<>>
    /\ result = 0
    /\ run_no = 1
    /\ first_result = 0
    /\ now_state = state
    /\ best_score = 0
    /\ next_score = 0
    /\ number \in {0, MaxNumber}
    /\ iter = 0
    /\ tmp_state = state

Init == InitMaze /\ runs = 1

\* -------------------------------------------------- play_game (main.rs)
\* "while !state.is_done()": the loop goes on to the call of the engine
Loop ==
    /\ pc = "loop"
    /\ ~is_done(state)
    /\ pc' = "call"
    /\ run_no' = 1
    /\ UNCHANGED <<mazeVars, beamVars, result, runs, first_result, hillVars>>

\* the loop ends and the score is pushed
Done ==
    /\ pc = "loop"
    /\ is_done(state)
    /\ pc' = "done"
    /\ UNCHANGED <<mazeVars, beamVars, result, runVars, hillVars>>

\* state.advance(<the action returned>); the locals of the call are gone
Advance ==
    /\ pc = "advance"
    /\ IF AdvanceOk(state, result)
       THEN /\ state' = advance(state, result)
            /\ pc' = "loop"
            /\ panic' = panic
       ELSE /\ state' = state
            /\ pc' = "panic"
            /\ panic' = "live state: index out of bounds"
    /\ now_beam' = EmptyBag
    /\ next_beam' = EmptyBag
    /\ best_state' = state'
    /\ t' = 0
    /\ k' = 0
    /\ popped' = <<>>
    /\ UNCHANGED <<prog, H, W, beam_width, beam_depth, result, runVars, hillVars>>

\* ---------------------------------------------------- beam_search_action
\* lines 120-123
BeamStart ==
    /\ pc = "call"
    /\ prog = "play"
    /\ now_beam' = SetToBag({state})
    /\ next_beam' = EmptyBag
    /\ best_state' = state
    /\ t' = 0
    /\ k' = 0
    /\ popped' = <<>>
    /\ pc' = "for_t"
    /\ UNCHANGED <<mazeVars, beam_width, beam_depth, result, runVars, hillVars>>

\* line 125-126: one more level, or the loop is over
ForDepth ==
    /\ pc = "for_t"
    /\ IF t < beam_depth
       THEN /\ next_beam' = EmptyBag
            /\ k' = 0
            /\ pc' = "for_w"
       ELSE /\ pc' = "ret"
            /\ UNCHANGED <<next_beam, k>>
    /\ UNCHANGED <<mazeVars, beam_width, beam_depth, now_beam, best_state, t,
                   popped, result, runVars, hillVars>>

Successor(parent, action) ==
    LET succ == evaluate_score(advance(parent, action))
    IN  IF t = 0 THEN [succ EXCEPT !.first_action = action] ELSE succ

RECURSIVE PushAll(_, _, _, _)
PushAll(heap, parent, actions, i) ==
    IF i > Len(actions) THEN heap
    ELSE PushAll(Push(heap, Successor(parent, actions[i])), parent, actions, i + 1)

\* lines 127-142: one pass of the inner loop pops a state and pushes its successors
Expand ==
    /\ pc = "for_w"
    /\ k < beam_width
    /\ now_beam # EmptyBag
    /\ \E parent \in Greatest(now_beam) :
          /\ now_beam' = Remove(now_beam, parent)
          /\ popped' = <<parent>>
          /\ IF AllAdvanceOk(parent)
             THEN /\ next_beam' = PushAll(next_beam, parent, legal_actions(parent), 1)
                  /\ k' = k + 1
                  /\ pc' = "for_w"
                  /\ panic' = panic
             ELSE /\ pc' = "panic"
                  /\ panic' = "clone: index out of bounds"
                  /\ UNCHANGED <<next_beam, k>>
    /\ UNCHANGED <<prog, H, W, state, beam_width, beam_depth, best_state, t,
                   result, runVars, hillVars>>

\* lines 127-129 and 144-149: the inner loop is over; the next level becomes the
\* current one and its greatest state is taken out of it
NextLevel ==
    /\ pc = "for_w"
    /\ (k >= beam_width \/ now_beam = EmptyBag)
    /\ popped' = <<>>
    /\ next_beam' = EmptyBag
    /\ IF next_beam = EmptyBag
       THEN /\ now_beam' = next_beam
            /\ pc' = "panic"
            /\ panic' = "unwrap on None"
            /\ UNCHANGED <<best_state, t>>
       ELSE \E best \in Greatest(next_beam) :
               /\ now_beam' = Remove(next_beam, best)
               /\ best_state' = best
               /\ panic' = panic
               /\ IF is_done(best)
                  THEN pc' = "ret" /\ t' = t
                  ELSE pc' = "for_t" /\ t' = t + 1
    /\ UNCHANGED <<prog, H, W, state, beam_width, beam_depth, k, result, runVars, hillVars>>

\* line 151
BeamReturn ==
    /\ pc = "ret"
    /\ result' = AsUsize(best_state.first_action)
    /\ pc' = IF run_no < runs THEN "again" ELSE "advance"
    /\ UNCHANGED <<mazeVars, beamVars, runVars, hillVars>>

\* the engine is run a second time on a clone of the same live state
RunAgain ==
    /\ pc = "again"
    /\ first_result' = result
    /\ run_no' = run_no + 1
    /\ pc' = "call"
    /\ UNCHANGED <<mazeVars, beamVars, result, runs, hillVars>>

\* ------------------------------------- play_game with greedy_action (178)
GreedyTurn ==
    /\ pc = "call"
    /\ prog = "greedy"
    /\ IF AllAdvanceOk(state)
       THEN /\ result' = greedy_action(state)
            /\ pc' = IF run_no < runs THEN "again" ELSE "advance"
            /\ panic' = panic
       ELSE /\ pc' = "panic"
            /\ panic' = "clone: index out of bounds"
            /\ result' = result
    /\ UNCHANGED <<prog, H, W, state, beamVars, runVars, hillVars>>

\* ------------------------------------------------- random_action (random.rs)
RandomTurn ==
    /\ pc = "call"
    /\ prog = "random"
    /\ IF legal_actions(state) # <<>>
       THEN /\ result' = legal_actions(state)[1]
            /\ pc' = "advance"
            /\ panic' = panic
       ELSE /\ pc' = "panic"
            /\ panic' = "index out of bounds: the len is 0"
            /\ result' = result
    /\ UNCHANGED <<prog, H, W, state, beamVars, runVars, hillVars>>

\* ------------------------------------------------- hill_climb (hillclimb.rs)
mazeOnly == <<prog, panic, H, W, beamVars, result, runVars>>

\* lines 188-190: init() puts every agent on any cell
HillInit ==
    /\ pc = "hill_start"
    /\ \E characters \in [1 .. CHARACTER_N -> Coords] :
          now_state' = [state EXCEPT !.characters = characters]
    /\ best_score' = get_score(now_state')
    /\ iter' = 0
    /\ pc' = "hill_loop"
    /\ UNCHANGED <<mazeOnly, state, next_score, number, tmp_state>>

\* lines 191-199: transition() puts one agent on any cell; next_state lives
\* for one pass of the loop only
HillIter ==
    /\ pc = "hill_loop"
    /\ iter < number
    /\ \E character_id \in 1 .. CHARACTER_N, c \in Coords :
          LET next_state == [now_state EXCEPT !.characters[character_id] = c]
          IN  /\ next_score' = get_score(next_state)
              /\ IF Accepts(next_score', best_score)
                 THEN best_score' = next_score' /\ now_state' = next_state
                 ELSE UNCHANGED <<best_score, now_state>>
    /\ iter' = iter + 1
    /\ pc' = "hill_loop"
    /\ UNCHANGED <<mazeOnly, state, number, tmp_state>>

\* line 200 and play_game line 205: state = hill_climb(&state, number); the
\* locals of hill_climb are gone
HillReturn ==
    /\ pc = "hill_loop"
    /\ iter >= number
    /\ state' = now_state
    /\ best_score' = 0
    /\ next_score' = 0
    /\ iter' = 0
    /\ pc' = "get_score"
    /\ UNCHANGED <<mazeOnly, now_state, number, tmp_state>>

\* play_game line 207, get_score lines 119-123
GetScoreClear ==
    /\ pc = "get_score"
    /\ tmp_state' = clear_under(state)
    /\ pc' = "playout"
    /\ UNCHANGED <<mazeOnly, state, now_state, best_score, next_score, number, iter>>

\* get_score lines 124-125
GetScoreAdvance ==
    /\ pc = "playout"
    /\ ~is_done(tmp_state)
    /\ tmp_state' = auto_advance(tmp_state)
    /\ pc' = "playout"
    /\ UNCHANGED <<mazeOnly, state, now_state, best_score, next_score, number, iter>>

\* get_score line 130
GetScoreReturn ==
    /\ pc = "playout"
    /\ is_done(tmp_state)
    /\ result' = tmp_state.game_score
    /\ pc' = "done"
    /\ UNCHANGED <<prog, panic, H, W, beamVars, runVars, state, hillVars>>

Next ==
    \/ Loop
    \/ Done
    \/ Advance
    \/ BeamStart
    \/ ForDepth
    \/ Expand
    \/ NextLevel
    \/ BeamReturn
    \/ GreedyTurn
    \/ RandomTurn

\* the three maze binaries
Spec == Init /\ [][Next]_vars

InitHillOnce == InitHill /\ runs = 1

NextHill ==
    \/ HillInit
    \/ HillIter
    \/ HillReturn
    \/ GetScoreClear
    \/ GetScoreAdvance
    \/ GetScoreReturn

\* the hill climbing binary
SpecHill == InitHillOnce /\ [][NextHill]_vars

InitAll == runs = 1 /\ (InitMaze \/ InitHill)

NextAll == Next \/ NextHill

\* every binary
SpecAll == InitAll /\ [][NextAll]_vars

InitTwice == InitMaze /\ prog \in {"play", "greedy"} /\ runs = 2

NextTwice ==
    \/ Loop
    \/ Done
    \/ Advance
    \/ BeamStart
    \/ ForDepth
    \/ Expand
    \/ NextLevel
    \/ BeamReturn
    \/ GreedyTurn
    \/ RunAgain

\* the engines of main.rs, run twice on every live state
SpecTwice == InitTwice /\ [][NextTwice]_vars

\* ============================================================ properties
Clones == BagToSet(now_beam) \cup BagToSet(next_beam) \cup {best_state} \cup Range(popped)

Score(s, action) == evaluate_score(advance(s, action)).evaluated_score

\* what advance makes of a state, without the fields the search adds
Core(s) ==
    [points |-> s.points, turn |-> s.turn, character |-> s.character,
     game_score |-> s.game_score]

RECURSIVE Descendants(_, _)
Descendants(s, n) ==
    IF n = 0 THEN {Core(s)}
    ELSE UNION {Descendants(advance(s, action), n - 1) :
                    action \in {a \in 0 .. 3 : AdvanceOk(s, a)}}

\* C1: a state popped for expansion has an evaluated score at least as great
\* as that of every state left unexpanded in the frontier
C1_PoppedHaveHighestScore ==
    (prog = "play" /\ pc = "for_w" /\ popped # <<>>) =>
        \A s \in BagToSet(now_beam) : s.evaluated_score <= popped[1].evaluated_score

\* C2: for width >= 1 and depth >= 1 the action returned is the first-action
\* tag of a state whose evaluated score is the greatest of the successors
\* pushed at the last level, and the tag is the first action of a path from the
\* input state to that state
C2_ReturnsTagOfBestSuccessor ==
    (prog = "play" /\ pc = "advance" /\ beam_width >= 1 /\ beam_depth >= 1) =>
        /\ result = best_state.first_action
        /\ \A s \in BagToSet(now_beam) : s.evaluated_score <= best_state.evaluated_score
        /\ AdvanceOk(state, result)
        /\ Core(best_state) \in Descendants(advance(state, result),
                                            best_state.turn - state.turn - 1)

\* C3: beam_search_action never fails on taking the greatest state of an
\* empty frontier
C3_NeverCrashesOnEmptyFrontier == panic # "unwrap on None"

\* C4: beam_search_action(state, 1, 1) returns the action greedy_action(state)
\* returns
C4_BeamOneOneIsGreedy ==
    (prog = "play" /\ pc = "advance" /\ beam_width = 1 /\ beam_depth = 1) =>
        result = greedy_action(state)

\* C5: with at least one legal action, greedy_action returns a legal action
\* whose successor has the greatest evaluated score, the first enumerated of
\* those that reach it
C5_GreedyFirstBest ==
    (prog = "greedy" /\ pc = "advance" /\ legal_actions(state) # <<>>) =>
        LET actions == legal_actions(state)
        IN  \E i \in 1 .. Len(actions) :
               /\ result = actions[i]
               /\ AdvanceOk(state, result)
               /\ \A j \in 1 .. Len(actions) :
                     /\ Score(state, actions[j]) <= Score(state, actions[i])
                     /\ Score(state, actions[j]) = Score(state, actions[i]) => i <= j

\* a tie between the action returned and a later one, on a state that has
\* collected before and whose best successor collects nothing
C5_Witness ==
    /\ prog = "greedy"
    /\ pc = "advance"
    /\ state.game_score > 0
    /\ Score(state, result) = state.game_score
    /\ \E i, j \in 1 .. Len(legal_actions(state)) :
          /\ i < j
          /\ result = legal_actions(state)[i]
          /\ Score(state, legal_actions(state)[j]) = Score(state, result)

\* what one advance may do to a state: s before it, n after it, on the cells
NoRegeneration(s, n) == \A c \in Cells : n.points[c] <= s.points[c]

Conserved(s, n) ==
    n.game_score + SumPoints(n.points) = s.game_score + SumPoints(s.points)

EmptyUnder(n, character) == n.points[<<character.y, character.x>>] = 0

\* an advance of the live state of a maze binary
C6_LiveAdvance ==
    (prog # "hill" /\ pc = "advance" /\ pc' = "loop") =>
        /\ NoRegeneration(state, state')
        /\ Conserved(state, state')
        /\ EmptyUnder(state', state'.character)
        /\ state'.turn = state.turn + 1

\* the clones of a search are the live state advanced some more
C6_CloneAdvance ==
    prog' # "hill" =>
        \A s \in Clones' :
            /\ NoRegeneration(state', s)
            /\ Conserved(state', s)
            /\ s.turn > state'.turn => EmptyUnder(s, s.character)

\* an advance of the playout of the hill climbing binary
C6_AutoAdvance ==
    (prog = "hill" /\ pc = "playout" /\ pc' = "playout") =>
        /\ NoRegeneration(tmp_state, tmp_state')
        /\ Conserved(tmp_state, tmp_state')
        /\ \A id \in 1 .. CHARACTER_N : EmptyUnder(tmp_state', tmp_state'.characters[id])
        /\ tmp_state'.turn = tmp_state.turn + 1

\* C6: across every advance no cell value increases, the cell under each
\* agent is empty afterwards, and game_score plus the values left on the board
\* stays what it was at the start
C6_AdvanceCollects == [][C6_LiveAdvance /\ C6_CloneAdvance /\ C6_AutoAdvance]_vars

\* the live state has collected something and so has a clone of the search
C6_Witness ==
    /\ prog = "play"
    /\ pc = "for_w"
    /\ state.game_score > 0
    /\ \E s \in BagToSet(next_beam) : s.game_score > state.game_score

\* C7: when legal_actions of the input state is empty, the value greedy_action
\* returns is not used as an action index and random_action does not index
\* into the empty list
C7_NoActionOnEmptyLegalActions ==
    (prog \in {"greedy", "random"} /\ legal_actions(state) = <<>>) =>
        /\ ~(prog = "greedy" /\ pc = "advance")
        /\ panic # "index out of bounds: the len is 0"

\* the two policies differ in the place of at most one agent
OneAgentMoved(a, b) ==
    /\ [a EXCEPT !.characters = b.characters] = b
    /\ Cardinality({id \in 1 .. CHARACTER_N : a.characters[id] # b.characters[id]}) <= 1

\* one pass of the loop of hill_climb
C8_Iteration ==
    (pc = "hill_loop" /\ pc' = "hill_loop" /\ iter' = iter + 1) =>
        /\ IF next_score' > best_score
           THEN /\ OneAgentMoved(now_state, now_state')
                /\ get_score(now_state') = next_score'
                /\ best_score' = next_score'
           ELSE /\ now_state' = now_state
                /\ best_score' = best_score
        /\ best_score' >= best_score

\* best_score is the score of now_state, and of the policy returned
C8_BestIsScoreOfNow ==
    /\ pc' = "hill_loop" => best_score' = get_score(now_state')
    /\ (pc = "hill_loop" /\ pc' = "get_score") =>
          state' = now_state /\ get_score(state') = best_score

\* C8: hill_climb replaces now_state by the mutated policy only when its score
\* is strictly greater than best_score and leaves it alone otherwise;
\* best_score is the score of now_state at every iteration and never decreases
C8_AcceptOnlyBetter == [][C8_Iteration /\ C8_BestIsScoreOfNow]_vars

\* the whole budget is spent and the last candidate, no better than the
\* current policy, was turned down
C8_Witness ==
    /\ prog = "hill"
    /\ pc = "hill_loop"
    /\ iter = MaxNumber
    /\ best_score > 0
    /\ next_score <= best_score

\* C9: every action passed to advance, on the live state of play_game and on
\* the clones inside greedy_action and beam_search_action (width >= 1,
\* depth >= 1), is legal: no advance indexes outside DX, DY or the board and
\* every agent stays on the board
C9_OnlyLegalActionsAdvance ==
    /\ panic # "clone: index out of bounds"
    /\ InBoard(state.character)
    /\ \A s \in Clones : InBoard(s.character)
    /\ (prog = "play" /\ beam_width >= 1 /\ beam_depth >= 1) =>
          /\ panic # "live state: index out of bounds"
          /\ pc = "advance" => AdvanceOk(state, result)

\* a whole episode of play_game's beam search, ended on the border of the board
C9_Witness ==
    /\ prog = "play"
    /\ beam_width = 5
    /\ beam_depth = 2
    /\ pc = "done"
    /\ state.turn = END_TURN
    /\ state.character.x = W - 1
    /\ state.game_score > 0

\* C10: two runs of an engine on equal inputs return the same action
C10_SameActionTwice == (pc = "advance" /\ run_no = 2) => result = first_result

\* the second run of the beam search has returned, and the frontier held a
\* state of another first action with the evaluated score of the best one
C10_Witness ==
    /\ prog = "play"
    /\ pc = "advance"
    /\ run_no = 2
    /\ result = first_result
    /\ \E s \in BagToSet(now_beam) :
          /\ s.evaluated_score = best_state.evaluated_score
          /\ s.first_action # best_state.first_action

\* the step that ends a level: the early-stop check of lines 144-149
LevelEnds == prog = "play" /\ pc = "for_w" /\ pc' \in {"for_t", "ret"}

\* C11: the early-stop check at the end of a level leaves the frontier as it
\* is: after it the current frontier holds every successor pushed at that
\* level, the best state of the level among them
C11_CheckKeepsFrontier ==
    [][LevelEnds => (now_beam' = next_beam /\ BagIn(best_state', now_beam'))]_vars

\* the episodes of play_game in main.rs
Episode == prog \in {"play", "greedy"}

\* the live state and every clone of the search are within the horizon, and
\* no clone is behind the live state
C12_TurnsInRange ==
    /\ state.turn \in 0 .. END_TURN
    /\ \A s \in Clones : s.turn \in state.turn .. END_TURN

\* the loop of play_game ends at the horizon and not before
C12_LoopEndsAtHorizon ==
    /\ pc = "done" => state.turn = END_TURN
    /\ pc \notin {"loop", "done"} => state.turn < END_TURN

\* every advance, of the live state or of a clone pushed by the search, adds
\* exactly one turn
C12_OneTurnPerAdvance ==
    /\ (pc = "advance" /\ pc' = "loop") => state'.turn = state.turn + 1
    /\ (pc = "for_w" /\ pc' = "for_w") =>
          \A s \in BagToSet(next_beam' (-) next_beam) : s.turn = popped'[1].turn + 1

\* C12: during an episode of play_game every state, the live one and every
\* clone of a search, has 0 <= turn <= END_TURN, each advance adds exactly one
\* turn, and the loop stops exactly when the live state's turn is END_TURN
C12_TurnWithinHorizon ==
    [][Episode => (C12_TurnsInRange' /\ C12_LoopEndsAtHorizon' /\ C12_OneTurnPerAdvance)]_vars

\* play_game's beam search, called one turn before the horizon, stops at its
\* first level on a best state that is done
C12_Witness ==
    /\ prog = "play"
    /\ beam_width = 5
    /\ beam_depth = 2
    /\ pc = "ret"
    /\ t = 0
    /\ state.turn = END_TURN - 1
    /\ best_state.turn = END_TURN
    /\ now_beam # EmptyBag

====
